---- MODULE Spec2Model ----
(***************************************************************************)
(* Model of the tool-calling orchestration of backend/ai_generator.py      *)
(* (class AIGenerator): generate_response, _handle_tool_execution,         *)
(* _execute_tools_from_response, _make_followup_call and                   *)
(* _extract_text_from_response.  The model endpoint (client.invoke_model)  *)
(* and the tool manager (tool_manager.execute_tool) are external: each     *)
(* call is a nondeterministic choice over what they can answer.            *)
(***************************************************************************)
EXTENDS Integers, Sequences, FiniteSets, TLC

(* ------------------------------ bounds -------------------------------- *)

\* Longest content list of one model response.
MaxBlocks == 2

(* ------------------------- program constants -------------------------- *)

\* Mutant: the round limit set one too high.
MAX_TOOL_ROUNDS_Three == 2 + 1

\* ai_generator.py:141
MAX_TOOL_ROUNDS == 2

\* ai_generator.py:11-39 (the text itself is irrelevant to the protocol)
SYSTEM_PROMPT == "SYSTEM_PROMPT"

\* ai_generator.py:65
BaseParams == [temperature |-> 0, max_tokens |-> 800]

\* ai_generator.py:97 and 237
ANTHROPIC_VERSION == "bedrock-2023-05-31"

\* ai_generator.py:269
FALLBACK_NO_TEXT == "Unable to provide a complete response."

\* ai_generator.py:185
FALLBACK_MAX_ROUNDS == "Unable to generate response after maximum tool rounds."

(* -------------------- inputs of the external parties ------------------ *)

\* Query texts a caller passes to generate_response.
Queries == {"q"}

\* An absent optional argument (Python None).
None == "<None>"

\* conversation_history: absent, or some text.
Histories == {None, "User: hi"}

\* The tools argument: absent, an empty list, or a list of definitions.
\* absent is a flag because a list and None are not comparable values.
ToolDefs == <<"search_course_content">>

ToolsArgs == {[given |-> FALSE, defs |-> <<>>],
              [given |-> TRUE, defs |-> <<>>],
              [given |-> TRUE, defs |-> ToolDefs]}

\* Texts of the text blocks the model can produce.
Texts == {"a"}

\* Ids, names and inputs of the tool_use blocks the model can produce.
ToolUseIds == {"tu1", "tu2"}

ToolNames == {"search_course_content"}

ToolInputs == {"mapping"}

\* What execute_tool can return, and the messages of what it can raise.
ToolOutputs == {"Result"}

ToolErrors == {"Tool execution failed"}

TextBlocks == [type : {"text"}, text : Texts]

ToolUseBlocks == [type : {"tool_use"}, id : ToolUseIds, name : ToolNames, input : ToolInputs]

ContentBlocks == TextBlocks \cup ToolUseBlocks

\* Content lists of length 0..MaxBlocks.
Contents == UNION {[1..n -> ContentBlocks] : n \in 0..MaxBlocks}

StopReasons == {"end_turn", "tool_use"}

\* Response bodies the endpoint can return (json.loads of the body).
ResponseBodies == [stop_reason : StopReasons, content : Contents]

(* ------------------------------ helpers ------------------------------- *)

\* Python truthiness of the tools argument: None and [] are falsy.
ToolsTruthy(t) == t.given /\ Len(t.defs) > 0

\* Python truthiness of conversation_history: None and "" are falsy.
HistoryTruthy(h) == h # None /\ h # ""

\* ai_generator.py:88-92
SystemContent(history) ==
    IF HistoryTruthy(history)
    THEN SYSTEM_PROMPT \o "\n\nPrevious conversation:\n" \o history
    ELSE SYSTEM_PROMPT

\* " ".join(list of strings)
RECURSIVE JoinSpace(_)
JoinSpace(ss) ==
    IF Len(ss) = 0 THEN ""
    ELSE IF Len(ss) = 1 THEN ss[1]
    ELSE ss[1] \o " " \o JoinSpace(Tail(ss))

\* [block["text"] for block in content if block.get("type") == "text"]
RECURSIVE TextsOf(_)
TextsOf(content) ==
    IF Len(content) = 0 THEN <<>>
    ELSE IF content[1].type = "text"
         THEN <<content[1].text>> \o TextsOf(Tail(content))
         ELSE TextsOf(Tail(content))

\* Mutant: only the first text block is returned.
ExtractTextFirstBlockOnly(response) ==
    IF Len(TextsOf(response.content)) = 0
    THEN FALLBACK_NO_TEXT
    ELSE TextsOf(response.content)[1]

\* ai_generator.py:251-271
ExtractTextFromResponse(response) ==
    IF Len(TextsOf(response.content)) = 0
    THEN FALLBACK_NO_TEXT
    ELSE JoinSpace(TextsOf(response.content))

\* Mutant: only the first block of the content is looked at.
NextToolUseFirstOnly(content, i) ==
    IF i = 1 /\ Len(content) >= 1 /\ content[1].type = "tool_use"
    THEN 1
    ELSE Len(content) + 1

\* Index of the first tool_use block of content at position >= i, or
\* Len(content) + 1 when there is none: the for loop of line 201 skips
\* every block whose type is not tool_use.
RECURSIVE NextToolUse(_, _)
NextToolUse(content, i) ==
    IF i > Len(content) THEN i
    ELSE IF content[i].type = "tool_use" THEN i
    ELSE NextToolUse(content, i + 1)

\* Number of tool_use blocks of a content list.
RECURSIVE CountToolUse(_)
CountToolUse(content) ==
    IF Len(content) = 0 THEN 0
    ELSE (IF content[1].type = "tool_use" THEN 1 ELSE 0) + CountToolUse(Tail(content))

\* ai_generator.py:209
ErrorString(name, msg) == "Error executing tool '" \o name \o "': " \o msg

\* Mutant: the result is tagged with the tool's name instead of the block's id.
ToolResultBlockWrongId(block, tool_result) ==
    [type |-> "tool_result", tool_use_id |-> block.name, content |-> tool_result]

\* ai_generator.py:211-217
ToolResultBlock(block, tool_result) ==
    [type |-> "tool_result", tool_use_id |-> block.id, content |-> tool_result]

\* base_params.get("tools") at line 151.
BaseParamsGetTools(params) ==
    IF "tools" \in DOMAIN params
    THEN [given |-> TRUE, defs |-> params.tools]
    ELSE [given |-> FALSE, defs |-> <<>>]

(* ------------------------------- state -------------------------------- *)

VARIABLES
    pc,                \* "idle", "round" (inside the while loop), "done"
    base_params,       \* self.base_params of the engine
    query,             \* generate_response: argument query
    conversation_history, \* generate_response: argument conversation_history
    tools,             \* generate_response: argument tools
    tool_manager,      \* generate_response: whether a tool_manager was passed
    request_body,      \* generate_response: the request of the initial call
    messages,          \* _handle_tool_execution: the message history
    current_round,     \* _handle_tool_execution: round counter
    current_response,  \* _handle_tool_execution: response being executed
    block_index,       \* _execute_tools_from_response: position in content
    tool_results,      \* _execute_tools_from_response: results so far
    requests,          \* every request body passed to invoke_model, in order
    responses,         \* every response body received, in order
    executions,        \* every dispatch of a tool_use block, in order
    outcome,           \* "none", "returned", "raised"
    result,            \* the returned string (or the kind of exception)
    thread,            \* the thread whose call of generate_response is running
    parked,            \* the locals of the other thread's call, while it waits
    reg_tools,         \* registry: names of the registered tools, in order
    last_sources,      \* search tool: its pending sources
    reg_op,            \* registry: the last operation called on it
    reg_result,        \* registry: what that operation returned or raised
    collected,         \* registry: the list the last collect_sources returned
    emitted,           \* every source emitted since the last reset, in order
    reg_query          \* number of the caller's query the registry is serving

vars == <<pc, base_params, query, conversation_history, tools, tool_manager,
          request_body, messages, current_round,
          current_response, block_index, tool_results, requests, responses,
          executions, outcome, result, thread, parked,
          reg_tools, last_sources, reg_op, reg_result, collected, emitted,
          reg_query>>

\* The state of the tool registry and of its tools.
registry_vars == <<reg_tools, last_sources, reg_op, reg_result, collected,
                   emitted, reg_query>>

\* The state of the engine and of its calls.
engine_vars == <<pc, base_params, query, conversation_history, tools, tool_manager,
                 request_body, messages, current_round,
                 current_response, block_index, tool_results, requests, responses,
                 executions, outcome, result, thread, parked>>

\* What a registry operation leaves when nothing was called yet.
NoRegistryResult == [raised |-> FALSE, value |-> ""]

NoResponse == [stop_reason |-> "none", content |-> <<>>]

NoRequest == [messages |-> <<>>]

\* The locals of a call of generate_response that has not started.
IdleFrame ==
    [pc |-> "idle", query |-> None, conversation_history |-> None,
     tools |-> [given |-> FALSE, defs |-> <<>>], tool_manager |-> FALSE,
     request_body |-> NoRequest, messages |-> <<>>, current_round |-> 0,
     current_response |-> NoResponse, block_index |-> 0, tool_results |-> <<>>,
     requests |-> <<>>, responses |-> <<>>, executions |-> <<>>,
     outcome |-> "none", result |-> ""]

Init ==
    /\ thread = 1
    /\ parked = IdleFrame
    /\ reg_tools = <<>>
    /\ last_sources = <<>>
    /\ reg_op = "none"
    /\ reg_result = NoRegistryResult
    /\ collected = <<>>
    /\ emitted = <<>>
    /\ reg_query = 1
    /\ pc = "idle"
    /\ base_params = BaseParams
    /\ query = None
    /\ conversation_history = None
    /\ tools = [given |-> FALSE, defs |-> <<>>]
    /\ tool_manager = FALSE
    /\ request_body = NoRequest
    /\ messages = <<>>
    /\ current_round = 0
    /\ current_response = NoResponse
    /\ block_index = 0
    /\ tool_results = <<>>
    /\ requests = <<>>
    /\ responses = <<>>
    /\ executions = <<>>
    /\ outcome = "none"
    /\ result = ""

\* The locals of _handle_tool_execution when no handler is running.
NoHandler ==
    /\ messages' = <<>>
    /\ current_round' = 0
    /\ current_response' = NoResponse
    /\ block_index' = 0
    /\ tool_results' = <<>>

\* return value of a call.
Return(value) ==
    /\ pc' = "done"
    /\ outcome' = "returned"
    /\ result' = value

\* an exception leaving generate_response.
Raise(kind) ==
    /\ pc' = "done"
    /\ outcome' = "raised"
    /\ result' = kind

(* ------------------------------ requests ------------------------------ *)

\* ai_generator.py:95-105: the request of the initial call.
InitialRequest(q, history, tools_arg) ==
    LET body == [anthropic_version |-> ANTHROPIC_VERSION,
                 messages |-> <<[role |-> "user", content |-> q]>>,
                 system |-> SystemContent(history)] @@ base_params
    IN IF ToolsTruthy(tools_arg)
       THEN body @@ [tools |-> tools_arg.defs, tool_choice |-> [type |-> "auto"]]
       ELSE body

\* Mutant: the follow-up request gets the tools without tool_choice.
FollowupRequestNoToolChoice(msgs, system_content, include_tools, tools_local) ==
    LET body == [anthropic_version |-> ANTHROPIC_VERSION,
                 messages |-> msgs,
                 system |-> system_content] @@ base_params
    IN IF include_tools /\ ToolsTruthy(tools_local)
       THEN body @@ [tools |-> tools_local.defs]
       ELSE body

\* ai_generator.py:235-245: the request of a follow-up call.
\* tools is base_params.get("tools"): None when the key is absent.
FollowupRequest(msgs, system_content, include_tools, tools_local) ==
    LET body == [anthropic_version |-> ANTHROPIC_VERSION,
                 messages |-> msgs,
                 system |-> system_content] @@ base_params
    IN IF include_tools /\ ToolsTruthy(tools_local)
       THEN body @@ [tools |-> tools_local.defs, tool_choice |-> [type |-> "auto"]]
       ELSE body

(* ------------------------------ actions ------------------------------- *)

\* ai_generator.py:120: response_body["content"][0]["text"]
DirectReturn(response_body) ==
    IF Len(response_body.content) = 0
    THEN Raise("IndexError")
    ELSE IF response_body.content[1].type # "text"
         THEN Raise("KeyError")
         ELSE Return(response_body.content[1].text)

\* Mutant: only the tool_use blocks of the response are kept in the
\* assistant message.
EnterHandlerToolUseOnly(initial_response, params) ==
    /\ messages' = Append(params.messages,
                          [role |-> "assistant",
                           content |-> SelectSeq(initial_response.content,
                                                 LAMBDA b : b.type = "tool_use")])
    /\ current_round' = 1
    /\ current_response' = initial_response
    /\ block_index' = 1
    /\ tool_results' = <<>>
    /\ pc' = "round"
    /\ UNCHANGED <<outcome, result>>

\* ai_generator.py:143-151: entry of _handle_tool_execution.
EnterHandler(initial_response, params) ==
    /\ messages' = Append(params.messages,
                          [role |-> "assistant", content |-> initial_response.content])
    /\ current_round' = 1
    /\ current_response' = initial_response
    /\ block_index' = 1
    /\ tool_results' = <<>>
    /\ pc' = "round"
    /\ UNCHANGED <<outcome, result>>

\* Mutant: the stop_reason is not looked at.
NeedsToolExecutionAnyStopReason(response_body, manager) == manager

\* Mutant: the handler is entered only when tool definitions were given.
NeedsToolExecutionRequiresTools(response_body, manager) ==
    response_body.stop_reason = "tool_use" /\ manager /\ ToolsTruthy(tools')

\* ai_generator.py:116
NeedsToolExecution(response_body, manager) ==
    response_body.stop_reason = "tool_use" /\ manager

\* generate_response, lines 87-120, when invoke_model raises (transport error)
\* or the body cannot be parsed: the exception propagates.
GenerateResponseFails(q, history, tools_arg, manager) ==
    /\ pc = "idle"
    /\ query' = q
    /\ conversation_history' = history
    /\ tools' = tools_arg
    /\ tool_manager' = manager
    /\ request_body' = InitialRequest(q, history, tools_arg)
    /\ requests' = <<request_body'>>
    /\ responses' = <<>>
    /\ executions' = <<>>
    /\ NoHandler
    /\ Raise("TransportError")
    /\ UNCHANGED <<thread, parked, registry_vars, base_params>>

\* Mutant: the request is built by updating self.base_params in place.
GenerateResponseUpdatesInPlace(q, history, tools_arg, manager, response_body) ==
    /\ pc = "idle"
    /\ query' = q
    /\ conversation_history' = history
    /\ tools' = tools_arg
    /\ tool_manager' = manager
    /\ request_body' = InitialRequest(q, history, tools_arg)
    /\ base_params' = request_body'
    /\ requests' = <<request_body'>>
    /\ responses' = <<response_body>>
    /\ executions' = <<>>
    /\ IF NeedsToolExecution(response_body, manager)
       THEN EnterHandler(response_body, request_body')
       ELSE NoHandler /\ DirectReturn(response_body)
    /\ UNCHANGED <<thread, parked, registry_vars>>

\* generate_response, lines 87-120, when invoke_model answers response_body.
GenerateResponse(q, history, tools_arg, manager, response_body) ==
    /\ pc = "idle"
    /\ query' = q
    /\ conversation_history' = history
    /\ tools' = tools_arg
    /\ tool_manager' = manager
    /\ request_body' = InitialRequest(q, history, tools_arg)
    /\ requests' = <<request_body'>>
    /\ responses' = <<response_body>>
    /\ executions' = <<>>
    /\ IF NeedsToolExecution(response_body, manager)
       THEN EnterHandler(response_body, request_body')
       ELSE NoHandler /\ DirectReturn(response_body)
    /\ UNCHANGED <<thread, parked, registry_vars, base_params>>

\* Line 205: **content_block["input"] can be evaluated, the input is there
\* and is a mapping of argument names to values.
WellFormedInput(block) == "input" \in DOMAIN block /\ block.input = "mapping"

\* str(e) of the exception line 205 raises before execute_tool is entered:
\* KeyError('input') when the field is missing, TypeError when the value
\* cannot be unpacked with **.
InputErrorMessage(block) ==
    IF "input" \notin DOMAIN block
    THEN "'input'"
    ELSE "argument after ** must be a mapping, not str"

\* Mutant: the arguments are built before the try, the exception leaves
\* generate_response.
ExecuteToolMalformedInputPropagates ==
    /\ pc = "round"
    /\ LET i == NextToolUse(current_response.content, block_index)
       IN /\ i <= Len(current_response.content)
          /\ ~WellFormedInput(current_response.content[i])
          /\ LET block == current_response.content[i]
             IN executions' = Append(executions,
                       [round |-> current_round, id |-> block.id, name |-> block.name,
                        raised |-> TRUE, message |-> InputErrorMessage(block),
                        at_request |-> Len(requests)])
          /\ block_index' = i + 1
    /\ Raise(IF "input" \in DOMAIN current_response.content[
                    NextToolUse(current_response.content, block_index)]
             THEN "TypeError" ELSE "KeyError")
    /\ UNCHANGED <<thread, parked, registry_vars, base_params, query, conversation_history, tools,
                   tool_manager, request_body, messages, tool_results,
                   current_round, current_response, requests, responses>>

\* One iteration of the for loop on a tool_use block whose input is missing
\* or is not a mapping: line 205 raises inside the try before the tool is
\* entered, and the except clause of lines 207-209 makes the result text.
ExecuteToolMalformedInput ==
    /\ pc = "round"
    /\ LET i == NextToolUse(current_response.content, block_index)
       IN /\ i <= Len(current_response.content)
          /\ ~WellFormedInput(current_response.content[i])
          /\ LET block == current_response.content[i]
             IN /\ tool_results' = Append(tool_results,
                       ToolResultBlock(block, ErrorString(block.name, InputErrorMessage(block))))
                /\ executions' = Append(executions,
                       [round |-> current_round, id |-> block.id, name |-> block.name,
                        raised |-> TRUE, message |-> InputErrorMessage(block),
                        at_request |-> Len(requests)])
          /\ block_index' = i + 1
    /\ UNCHANGED <<pc, thread, parked, registry_vars, base_params, query, conversation_history, tools,
                   tool_manager, request_body, messages,
                   current_round, current_response, requests, responses, outcome, result>>

\* _execute_tools_from_response, lines 201-217: one iteration of the for loop
\* on the next tool_use block, execute_tool returning tool_result.
ExecuteToolReturns(tool_result) ==
    /\ pc = "round"
    /\ LET i == NextToolUse(current_response.content, block_index)
       IN /\ i <= Len(current_response.content)
          /\ WellFormedInput(current_response.content[i])
          /\ LET block == current_response.content[i]
             IN /\ tool_results' = Append(tool_results, ToolResultBlock(block, tool_result))
                /\ executions' = Append(executions,
                       [round |-> current_round, id |-> block.id, name |-> block.name,
                        raised |-> FALSE, message |-> "",
                        at_request |-> Len(requests)])
          /\ block_index' = i + 1
    /\ UNCHANGED <<pc, thread, parked, registry_vars, base_params, query, conversation_history, tools,
                   tool_manager, request_body, messages,
                   current_round, current_response, requests, responses, outcome, result>>

\* Mutant: no try/except around the dispatch, the exception propagates.
ExecuteToolRaisesPropagates(msg) ==
    /\ pc = "round"
    /\ LET i == NextToolUse(current_response.content, block_index)
       IN /\ i <= Len(current_response.content)
          /\ LET block == current_response.content[i]
             IN executions' = Append(executions,
                       [round |-> current_round, id |-> block.id, name |-> block.name,
                        raised |-> TRUE, message |-> msg,
                        at_request |-> Len(requests)])
          /\ block_index' = i + 1
    /\ Raise(msg)
    /\ UNCHANGED <<thread, parked, registry_vars, base_params, query, conversation_history, tools,
                   tool_manager, request_body, messages, tool_results,
                   current_round, current_response, requests, responses>>

\* Mutant: the try/except encloses the whole loop, a failure ends the round's
\* dispatches.
ExecuteToolRaisesStopsRound(msg) ==
    /\ pc = "round"
    /\ LET i == NextToolUse(current_response.content, block_index)
       IN /\ i <= Len(current_response.content)
          /\ LET block == current_response.content[i]
             IN /\ tool_results' = Append(tool_results,
                       ToolResultBlock(block, ErrorString(block.name, msg)))
                /\ executions' = Append(executions,
                       [round |-> current_round, id |-> block.id, name |-> block.name,
                        raised |-> TRUE, message |-> msg,
                        at_request |-> Len(requests)])
          /\ block_index' = Len(current_response.content) + 1
    /\ UNCHANGED <<pc, thread, parked, registry_vars, base_params, query, conversation_history, tools,
                   tool_manager, request_body, messages,
                   current_round, current_response, requests, responses, outcome, result>>

\* Mutant: the except clause skips the block, no result is recorded for it.
ExecuteToolRaisesNoResult(msg) ==
    /\ pc = "round"
    /\ LET i == NextToolUse(current_response.content, block_index)
       IN /\ i <= Len(current_response.content)
          /\ LET block == current_response.content[i]
             IN executions' = Append(executions,
                       [round |-> current_round, id |-> block.id, name |-> block.name,
                        raised |-> TRUE, message |-> msg,
                        at_request |-> Len(requests)])
          /\ block_index' = i + 1
    /\ UNCHANGED <<pc, thread, parked, registry_vars, base_params, query, conversation_history, tools,
                   tool_manager, request_body, messages, tool_results,
                   current_round, current_response, requests, responses, outcome, result>>

\* The same iteration when the dispatch raises an exception with message msg:
\* the except clause of lines 207-209 turns it into the result text.
ExecuteToolRaises(msg) ==
    /\ pc = "round"
    /\ LET i == NextToolUse(current_response.content, block_index)
       IN /\ i <= Len(current_response.content)
          /\ WellFormedInput(current_response.content[i])
          /\ LET block == current_response.content[i]
             IN /\ tool_results' = Append(tool_results,
                       ToolResultBlock(block, ErrorString(block.name, msg)))
                /\ executions' = Append(executions,
                       [round |-> current_round, id |-> block.id, name |-> block.name,
                        raised |-> TRUE, message |-> msg,
                        at_request |-> Len(requests)])
          /\ block_index' = i + 1
    /\ UNCHANGED <<pc, thread, parked, registry_vars, base_params, query, conversation_history, tools,
                   tool_manager, request_body, messages,
                   current_round, current_response, requests, responses, outcome, result>>

\* Mutant: the tool results are sent back under the assistant role.
MessagesWithResultsAsAssistant(msgs, results) ==
    IF Len(results) > 0
    THEN Append(msgs, [role |-> "assistant", content |-> results])
    ELSE msgs

\* Mutant: only the first result of the round is sent back.
MessagesWithResultsFirstOnly(msgs, results) ==
    IF Len(results) > 0
    THEN Append(msgs, [role |-> "user", content |-> <<results[1]>>])
    ELSE msgs

\* Mutant: the user message is appended even when the round has no result.
MessagesWithResultsAlways(msgs, results) ==
    Append(msgs, [role |-> "user", content |-> results])

\* ai_generator.py:158-159: the history the next call is made with.
MessagesWithResults(msgs, results) ==
    IF Len(results) > 0
    THEN Append(msgs, [role |-> "user", content |-> results])
    ELSE msgs

\* Mutant: the last round is taken to be the one before MAX_TOOL_ROUNDS.
IsLastRoundOffByOne(round) == round = MAX_TOOL_ROUNDS - 1

\* Mutant: no round is ever taken to be the last.
IsLastRoundNever(round) == FALSE

\* Mutant: the last round is taken to be the one after MAX_TOOL_ROUNDS.
IsLastRoundAfterMax(round) == round = MAX_TOOL_ROUNDS + 1

\* ai_generator.py:162
IsLastRound(round) == round = MAX_TOOL_ROUNDS

\* Mutant: the tools are sent on every call.
IncludeToolsAlways(round) == TRUE

\* ai_generator.py:163
IncludeTools(round) == ~IsLastRound(round)

\* Mutant: the loop over the blocks stops after the first dispatch.
ToolLoopDoneAfterFirst ==
    \/ Len(tool_results) > 0
    \/ NextToolUse(current_response.content, block_index) > Len(current_response.content)

\* The for loop of line 201 has no tool_use block left.
ToolLoopDone ==
    NextToolUse(current_response.content, block_index) > Len(current_response.content)

\* Mutant: the follow-up calls are sent the static prompt, the conversation
\* history left out.
NextRequestDropsHistory ==
    FollowupRequest(MessagesWithResults(messages, tool_results), SYSTEM_PROMPT,
                    IncludeTools(current_round), BaseParamsGetTools(request_body))

\* The request lines 157-168 send after the for loop.
NextRequest ==
    FollowupRequest(MessagesWithResults(messages, tool_results), request_body.system,
                    IncludeTools(current_round), BaseParamsGetTools(request_body))

\* Mutant: the failure of the follow-up call is caught and answered with
\* the fallback string.
FollowupCallFailsSwallowed ==
    /\ pc = "round"
    /\ ToolLoopDone
    /\ messages' = MessagesWithResults(messages, tool_results)
    /\ requests' = Append(requests, NextRequest)
    /\ Return(FALLBACK_NO_TEXT)
    /\ UNCHANGED <<thread, parked, registry_vars, base_params, query, conversation_history, tools,
                   tool_manager, request_body, current_round,
                   current_response, block_index, tool_results, responses, executions>>

\* Lines 157-168 when the follow-up invoke_model raises: the exception
\* leaves _handle_tool_execution and generate_response.
FollowupCallFails ==
    /\ pc = "round"
    /\ ToolLoopDone
    /\ messages' = MessagesWithResults(messages, tool_results)
    /\ requests' = Append(requests, NextRequest)
    /\ Raise("TransportError")
    /\ UNCHANGED <<thread, parked, registry_vars, base_params, query, conversation_history, tools,
                   tool_manager, request_body, current_round,
                   current_response, block_index, tool_results, responses, executions>>

\* Mutant: current_round += 1 is missing.
AdvanceRoundNoIncrement(msgs, next_response) ==
    /\ messages' = Append(msgs, [role |-> "assistant", content |-> next_response.content])
    /\ current_response' = next_response
    /\ current_round' = current_round
    /\ block_index' = 1
    /\ tool_results' = <<>>
    /\ UNCHANGED <<pc, outcome, result>>

\* Mutant: the assistant message of the next round is not appended.
AdvanceRoundNoAssistant(msgs, next_response) ==
    /\ messages' = msgs
    /\ current_response' = next_response
    /\ current_round' = current_round + 1
    /\ block_index' = 1
    /\ tool_results' = <<>>
    /\ UNCHANGED <<pc, outcome, result>>

\* Mutant: the history is rebuilt from the initial request every round.
AdvanceRoundRebuilds(msgs, next_response) ==
    /\ messages' = Append(request_body.messages,
                          [role |-> "assistant", content |-> next_response.content])
    /\ current_response' = next_response
    /\ current_round' = current_round + 1
    /\ block_index' = 1
    /\ tool_results' = <<>>
    /\ UNCHANGED <<pc, outcome, result>>

\* Lines 179-182 and the loop test of line 153 for the round after.
AdvanceRound(msgs, next_response) ==
    IF current_round + 1 <= MAX_TOOL_ROUNDS
    THEN /\ messages' = Append(msgs, [role |-> "assistant", content |-> next_response.content])
         /\ current_response' = next_response
         /\ current_round' = current_round + 1
         /\ block_index' = 1
         /\ tool_results' = <<>>
         /\ UNCHANGED <<pc, outcome, result>>
    ELSE /\ messages' = Append(msgs, [role |-> "assistant", content |-> next_response.content])
         /\ current_response' = next_response
         /\ current_round' = current_round + 1
         /\ UNCHANGED <<block_index, tool_results>>
         /\ Return(FALLBACK_MAX_ROUNDS)

\* Mutant: the answer is joined from the texts of the response that opened
\* the round and of the response that ends it.
FollowupCallAccumulatesText(next_response) ==
    /\ pc = "round"
    /\ ToolLoopDone
    /\ requests' = Append(requests, NextRequest)
    /\ responses' = Append(responses, next_response)
    /\ LET msgs == MessagesWithResults(messages, tool_results)
           answer == ExtractTextFromResponse(
                         [stop_reason |-> next_response.stop_reason,
                          content |-> current_response.content \o next_response.content])
       IN IF next_response.stop_reason # "tool_use"
          THEN /\ messages' = msgs
               /\ Return(answer)
               /\ UNCHANGED <<current_round, current_response, block_index, tool_results>>
          ELSE IF IsLastRound(current_round)
          THEN /\ messages' = msgs
               /\ Return(answer)
               /\ UNCHANGED <<current_round, current_response, block_index, tool_results>>
          ELSE AdvanceRound(msgs, next_response)
    /\ UNCHANGED <<thread, parked, registry_vars, base_params, query, conversation_history, tools,
                   tool_manager, request_body, executions>>

\* Lines 157-182: the rest of one pass of the while loop, after the tools of
\* the round ran, invoke_model answering next_response.
FollowupCall(next_response) ==
    /\ pc = "round"
    /\ ToolLoopDone
    /\ requests' = Append(requests, NextRequest)
    /\ responses' = Append(responses, next_response)
    /\ LET msgs == MessagesWithResults(messages, tool_results)
       IN IF next_response.stop_reason # "tool_use"
          THEN /\ messages' = msgs
               /\ Return(ExtractTextFromResponse(next_response))
               /\ UNCHANGED <<current_round, current_response, block_index, tool_results>>
          ELSE IF IsLastRound(current_round)
          THEN /\ messages' = msgs
               /\ Return(ExtractTextFromResponse(next_response))
               /\ UNCHANGED <<current_round, current_response, block_index, tool_results>>
          ELSE AdvanceRound(msgs, next_response)
    /\ UNCHANGED <<thread, parked, registry_vars, base_params, query, conversation_history, tools,
                   tool_manager, request_body, executions>>

Next ==
    \/ \E q \in Queries, h \in Histories, t \in ToolsArgs, m \in BOOLEAN :
           GenerateResponseFails(q, h, t, m)
    \/ \E q \in Queries, h \in Histories, t \in ToolsArgs, m \in BOOLEAN,
          r \in ResponseBodies :
           GenerateResponse(q, h, t, m, r)
    \/ \E out \in ToolOutputs : ExecuteToolReturns(out)
    \/ \E msg \in ToolErrors : ExecuteToolRaises(msg)
    \/ FollowupCallFails
    \/ \E r \in ResponseBodies : FollowupCall(r)

Spec == Init /\ [][Next]_vars

(* ------------- the engine when every call it makes comes back ---------- *)

\* A step of the handler: a tool execution of the round, or the endpoint
\* call that follows it.
HandlerStep ==
    \/ \E out \in ToolOutputs : ExecuteToolReturns(out)
    \/ \E msg \in ToolErrors : ExecuteToolRaises(msg)
    \/ FollowupCallFails
    \/ \E r \in ResponseBodies : FollowupCall(r)

\* The handler is sequential code: once entered it keeps taking steps as
\* long as each endpoint call and each tool execution comes back.
SpecLive == Spec /\ WF_vars(HandlerStep)

(* -------- the same engine, fed responses with several distinct texts --- *)

\* Texts of the text blocks, wide enough to tell their order.
TextsWide == {"a", "b"}

\* Blocks, content lists and response bodies over TextsWide, with one
\* tool_use id.
ContentBlocksWide ==
    [type : {"text"}, text : TextsWide]
    \cup [type : {"tool_use"}, id : {"tu1"}, name : ToolNames, input : ToolInputs]

ContentsWide == UNION {[1..n -> ContentBlocksWide] : n \in 0..MaxBlocks}

ResponseBodiesWide == [stop_reason : StopReasons, content : ContentsWide]

\* First responses that open round 1: texts, then one tool_use block.
FirstResponsesWide ==
    {r \in ResponseBodiesWide :
        /\ r.stop_reason = "tool_use"
        /\ CountToolUse(r.content) = 1
        /\ r.content[Len(r.content)].type = "tool_use"}

\* A query with tool definitions and a tool manager, the endpoint answering
\* from ResponseBodiesWide.
NextWide ==
    \/ \E q \in Queries : GenerateResponseFails(q, None, [given |-> TRUE, defs |-> ToolDefs], TRUE)
    \/ \E q \in Queries, r \in FirstResponsesWide :
           GenerateResponse(q, None, [given |-> TRUE, defs |-> ToolDefs], TRUE, r)
    \/ \E out \in ToolOutputs : ExecuteToolReturns(out)
    \/ \E msg \in ToolErrors : ExecuteToolRaises(msg)
    \/ FollowupCallFails
    \/ \E r \in ResponseBodiesWide : FollowupCall(r)

SpecWide == Init /\ [][NextWide]_vars

(* ------- two calls of generate_response on one engine, interleaved ------ *)

\* The locals of the running call: everything generate_response and
\* _handle_tool_execution keep in their own frames. self.base_params is an
\* attribute of the engine and is not part of it.
Frame ==
    [pc |-> pc, query |-> query, conversation_history |-> conversation_history,
     tools |-> tools, tool_manager |-> tool_manager,
     request_body |-> request_body, messages |-> messages,
     current_round |-> current_round, current_response |-> current_response,
     block_index |-> block_index, tool_results |-> tool_results,
     requests |-> requests, responses |-> responses, executions |-> executions,
     outcome |-> outcome, result |-> result]

\* Mutant: the message history is kept on the engine, so that a thread switch
\* leaves it in place for the other call.
SwitchKeepsMessages ==
    /\ parked' = Frame
    /\ thread' = 3 - thread
    /\ pc' = parked.pc
    /\ query' = parked.query
    /\ conversation_history' = parked.conversation_history
    /\ tools' = parked.tools
    /\ tool_manager' = parked.tool_manager
    /\ request_body' = parked.request_body
    /\ messages' = messages
    /\ current_round' = parked.current_round
    /\ current_response' = parked.current_response
    /\ block_index' = parked.block_index
    /\ tool_results' = parked.tool_results
    /\ requests' = parked.requests
    /\ responses' = parked.responses
    /\ executions' = parked.executions
    /\ outcome' = parked.outcome
    /\ result' = parked.result
    /\ UNCHANGED <<base_params, registry_vars>>

\* The scheduler suspends the running call and resumes the other one: each
\* call goes on with its own locals, the engine's attributes stay.
Switch ==
    /\ parked' = Frame
    /\ thread' = 3 - thread
    /\ pc' = parked.pc
    /\ query' = parked.query
    /\ conversation_history' = parked.conversation_history
    /\ tools' = parked.tools
    /\ tool_manager' = parked.tool_manager
    /\ request_body' = parked.request_body
    /\ messages' = parked.messages
    /\ current_round' = parked.current_round
    /\ current_response' = parked.current_response
    /\ block_index' = parked.block_index
    /\ tool_results' = parked.tool_results
    /\ requests' = parked.requests
    /\ responses' = parked.responses
    /\ executions' = parked.executions
    /\ outcome' = parked.outcome
    /\ result' = parked.result
    /\ UNCHANGED <<base_params, registry_vars>>

\* What each of the two calls is given and answered, distinct per thread so
\* that the origin of a message can be told.
PairQuery(t) == IF t = 1 THEN "q1" ELSE "q2"

PairText(t) == IF t = 1 THEN "a1" ELSE "a2"

PairToolUseId(t) == IF t = 1 THEN "tu1" ELSE "tu2"

PairToolOutput(t) == IF t = 1 THEN "Result1" ELSE "Result2"

PairToolError(t) == IF t = 1 THEN "failed1" ELSE "failed2"

PairTextBlock(t) == [type |-> "text", text |-> PairText(t)]

PairToolUseBlock(t) ==
    [type |-> "tool_use", id |-> PairToolUseId(t),
     name |-> "search_course_content", input |-> "mapping"]

PairResponses(t) ==
    {[stop_reason |-> "end_turn", content |-> <<PairTextBlock(t)>>],
     [stop_reason |-> "tool_use", content |-> <<PairToolUseBlock(t)>>],
     [stop_reason |-> "tool_use", content |-> <<PairTextBlock(t), PairToolUseBlock(t)>>]}

NextPair ==
    \/ Switch
    \/ GenerateResponseFails(PairQuery(thread), None, [given |-> TRUE, defs |-> ToolDefs], TRUE)
    \/ \E r \in PairResponses(thread) :
           GenerateResponse(PairQuery(thread), None, [given |-> TRUE, defs |-> ToolDefs], TRUE, r)
    \/ ExecuteToolReturns(PairToolOutput(thread))
    \/ ExecuteToolRaises(PairToolError(thread))
    \/ FollowupCallFails
    \/ \E r \in PairResponses(thread) : FollowupCall(r)

SpecPair == Init /\ [][NextPair]_vars

(* ------------------- the tool registry and the search tool ------------- *)

\* Bounds: passages one search matches, pending sources, caller queries.
MaxPassages == 2

MaxSources == 2

MaxQueries == 2

SEARCH_TOOL == "search_course_content"

OUTLINE_TOOL == "get_course_outline"

RegistryToolNames == {SEARCH_TOOL, OUTLINE_TOOL}

\* Names a dispatch is asked for, one of them never registered.
DispatchNames == RegistryToolNames \cup {"nonexistent_tool"}

\* lesson_number = None
NoLesson == 0 - 1

CourseNameArgs == {None, "X"}

LessonNumberArgs == {NoLesson, 5}

\* Arguments of the search tool.
SearchArgs == [query : {"test"}, course_name : CourseNameArgs, lesson_number : LessonNumberArgs]

\* One matched passage: its document and its metadata.
Passages == [doc : {"Test content"}, course_title : {"Test Course"}, lesson_number : {NoLesson, 1}]

SearchErrors == {"Database connection failed"}

\* What search(query, course_name, lesson_number) gives back: the matched
\* passages without an error, or an error without passages.
SearchResults ==
    [passages : UNION {[1..n -> Passages] : n \in 0..MaxPassages}, error : {None}]
    \cup [passages : {<<>>}, error : SearchErrors]

\* What get_lesson_link gives back.
Links == {None, "https://example.com/test/lesson-1"}

\* f"{n}" of a lesson number.
LessonText(n) == ToString(n)

\* Mutant: the course filter is left out of the message.
NoResultsMessageNoCourse(course_name, lesson_number) ==
    "No relevant content found"
        \o (IF lesson_number # NoLesson THEN " in lesson " \o LessonText(lesson_number) ELSE "")
        \o "."

\* The message for an empty result set.
NoResultsMessage(course_name, lesson_number) ==
    "No relevant content found"
        \o (IF course_name # None THEN " in course '" \o course_name \o "'" ELSE "")
        \o (IF lesson_number # NoLesson THEN " in lesson " \o LessonText(lesson_number) ELSE "")
        \o "."

\* "<course title> - Lesson <n>", or the course title alone.
PassageTitle(p) ==
    p.course_title
        \o (IF p.lesson_number # NoLesson THEN " - Lesson " \o LessonText(p.lesson_number) ELSE "")

\* One formatted passage: its header and its document.
FormatPassage(p) == "[" \o PassageTitle(p) \o "]" \o "\n" \o p.doc

\* The passages joined with a blank line between them.
RECURSIVE FormatResults(_)
FormatResults(passages) ==
    IF Len(passages) = 0 THEN ""
    ELSE IF Len(passages) = 1 THEN FormatPassage(passages[1])
    ELSE FormatPassage(passages[1]) \o "\n\n" \o FormatResults(Tail(passages))

\* Mutant: a passage whose link cannot be resolved gets no source.
SourcesOfSkipsMissingLink(passages, links) ==
    LET RECURSIVE Keep(_)
        Keep(i) ==
            IF i > Len(passages) THEN <<>>
            ELSE IF links[i] = None THEN Keep(i + 1)
            ELSE <<[text |-> PassageTitle(passages[i]), link |-> links[i]]>> \o Keep(i + 1)
    IN Keep(1)

\* The sources of the matched passages, one per passage, links[i] the link
\* the lookup resolved for passage i (None when it resolved none).
SourcesOf(passages, links) ==
    [i \in 1..Len(passages) |-> [text |-> PassageTitle(passages[i]), link |-> links[i]]]

\* Mutant: the empty result set is looked at before the error.
SearchOutputEmptyFirst(args, results) ==
    IF Len(results.passages) = 0
    THEN NoResultsMessage(args.course_name, args.lesson_number)
    ELSE IF results.error # None THEN results.error
    ELSE FormatResults(results.passages)

\* The text the search tool returns.
SearchOutput(args, results) ==
    IF results.error # None
    THEN results.error
    ELSE IF Len(results.passages) = 0
    THEN NoResultsMessage(args.course_name, args.lesson_number)
    ELSE FormatResults(results.passages)

\* The sources the search tool emits in one execution.
SearchEmits(results, links) ==
    IF results.error # None THEN <<>> ELSE SourcesOf(results.passages, links)

\* The names in reg_tools.
Registered == {reg_tools[i] : i \in 1..Len(reg_tools)}

\* The pending sources of a tool: only the search tool emits any.
PendingOf(name) == IF name = SEARCH_TOOL THEN last_sources ELSE <<>>

\* Mutant: collect_sources gives the sources of the first tool only.
RECURSIVE ConcatSourcesFirstOnly(_)
ConcatSourcesFirstOnly(names) ==
    IF Len(names) = 0 THEN <<>> ELSE PendingOf(names[1])

\* The pending sources of the tools in names, concatenated.
RECURSIVE ConcatSources(_)
ConcatSources(names) ==
    IF Len(names) = 0 THEN <<>>
    ELSE PendingOf(names[1]) \o ConcatSources(Tail(names))

\* What collect_sources would return now.
CollectSources == ConcatSources(reg_tools)

\* register(tool): a name already registered is refused with
\* DuplicateNameError, any other name is added after the registered ones.
RegisterTool(name) ==
    /\ reg_op' = "register"
    /\ IF name \in Registered
       THEN /\ reg_result' = [raised |-> TRUE, value |-> "DuplicateNameError"]
            /\ UNCHANGED reg_tools
       ELSE /\ reg_result' = NoRegistryResult
            /\ reg_tools' = Append(reg_tools, name)
    /\ UNCHANGED <<last_sources, collected, emitted, reg_query, engine_vars>>

\* Mutant: the lookup of an unregistered name raises.
DispatchUnknownRaises(name) ==
    /\ name \notin Registered
    /\ reg_op' = "dispatch"
    /\ reg_result' = [raised |-> TRUE, value |-> "KeyError"]
    /\ UNCHANGED <<reg_tools, last_sources, collected, emitted, reg_query, engine_vars>>

\* dispatch(name, args) of a name that is not registered: the textual
\* "not found" message is returned.
DispatchUnknown(name) ==
    /\ name \notin Registered
    /\ reg_op' = "dispatch"
    /\ reg_result' = [raised |-> FALSE, value |-> "Tool '" \o name \o "' not found"]
    /\ UNCHANGED <<reg_tools, last_sources, collected, emitted, reg_query, engine_vars>>

\* Mutant: an execution replaces the pending sources of the tool by its own.
DispatchSearchReplaces(args, results, links) ==
    /\ SEARCH_TOOL \in Registered
    /\ Len(last_sources) + Len(results.passages) <= MaxSources
    /\ reg_op' = "dispatch"
    /\ reg_result' = [raised |-> FALSE, value |-> SearchOutput(args, results)]
    /\ last_sources' = SearchEmits(results, links)
    /\ emitted' = emitted \o [i \in 1..Len(SearchEmits(results, links)) |->
                                [source |-> SearchEmits(results, links)[i], query |-> reg_query]]
    /\ UNCHANGED <<reg_tools, collected, reg_query, engine_vars>>

\* dispatch of the search tool: the search runs, the tool returns its text
\* and appends one source per matched passage to its pending sources.
DispatchSearch(args, results, links) ==
    /\ SEARCH_TOOL \in Registered
    /\ Len(last_sources) + Len(results.passages) <= MaxSources
    /\ reg_op' = "dispatch"
    /\ reg_result' = [raised |-> FALSE, value |-> SearchOutput(args, results)]
    /\ last_sources' = last_sources \o SearchEmits(results, links)
    /\ emitted' = emitted \o [i \in 1..Len(SearchEmits(results, links)) |->
                                [source |-> SearchEmits(results, links)[i], query |-> reg_query]]
    /\ UNCHANGED <<reg_tools, collected, reg_query, engine_vars>>

\* dispatch of the outline tool: it returns its text and emits no source.
DispatchOutline ==
    /\ OUTLINE_TOOL \in Registered
    /\ reg_op' = "dispatch"
    /\ reg_result' = [raised |-> FALSE, value |-> "Course: Test Course"]
    /\ UNCHANGED <<reg_tools, last_sources, collected, emitted, reg_query, engine_vars>>

\* collect_sources()
CollectSourcesCall ==
    /\ reg_op' = "collect"
    /\ collected' = CollectSources
    /\ reg_result' = NoRegistryResult
    /\ UNCHANGED <<reg_tools, last_sources, emitted, reg_query, engine_vars>>

\* Mutant: reset_sources forgets what was collected and leaves the pending
\* sources of the tools.
ResetSourcesKeepsPending ==
    /\ reg_op' = "reset"
    /\ collected' = <<>>
    /\ emitted' = <<>>
    /\ reg_result' = NoRegistryResult
    /\ UNCHANGED <<reg_tools, last_sources, reg_query, engine_vars>>

\* reset_sources(): the pending sources of every tool are cleared.
ResetSources ==
    /\ reg_op' = "reset"
    /\ last_sources' = <<>>
    /\ emitted' = <<>>
    /\ reg_result' = NoRegistryResult
    /\ UNCHANGED <<reg_tools, collected, reg_query, engine_vars>>

\* The caller's next query begins. The engine holds no reference to the
\* sources: nothing of the registry changes.
NextQuery ==
    /\ reg_query < MaxQueries
    /\ reg_query' = reg_query + 1
    /\ reg_op' = "query"
    /\ reg_result' = NoRegistryResult
    /\ UNCHANGED <<reg_tools, last_sources, collected, emitted, engine_vars>>

NextRegistry ==
    \/ \E name \in RegistryToolNames : RegisterTool(name)
    \/ \E name \in DispatchNames : DispatchUnknown(name)
    \/ \E args \in SearchArgs, results \in SearchResults :
          \E links \in [1..Len(results.passages) -> Links] :
              DispatchSearch(args, results, links)
    \/ DispatchOutline
    \/ CollectSourcesCall
    \/ ResetSources
    \/ NextQuery

SpecRegistry == Init /\ [][NextRegistry]_vars

(* ---------- the engine fed tool_use blocks with malformed input -------- *)

\* tool_use blocks whose input is a mapping, is a string, or is missing.
ToolUseBlocksMalformed ==
    [type : {"tool_use"}, id : {"tu1"}, name : ToolNames, input : {"mapping", "not a mapping"}]
    \cup [type : {"tool_use"}, id : {"tu1"}, name : ToolNames]

ContentsMalformed ==
    UNION {[1..n -> TextBlocks \cup ToolUseBlocksMalformed] : n \in 0..MaxBlocks}

ResponseBodiesMalformed == [stop_reason : StopReasons, content : ContentsMalformed]

\* A query with tool definitions and a tool manager, the endpoint answering
\* from ResponseBodiesMalformed.
NextMalformed ==
    \/ \E q \in Queries : GenerateResponseFails(q, None, [given |-> TRUE, defs |-> ToolDefs], TRUE)
    \/ \E q \in Queries, r \in ResponseBodiesMalformed :
           GenerateResponse(q, None, [given |-> TRUE, defs |-> ToolDefs], TRUE, r)
    \/ \E out \in ToolOutputs : ExecuteToolReturns(out)
    \/ \E msg \in ToolErrors : ExecuteToolRaises(msg)
    \/ ExecuteToolMalformedInput
    \/ FollowupCallFails
    \/ \E r \in ResponseBodiesMalformed : FollowupCall(r)

SpecMalformed == Init /\ [][NextMalformed]_vars

(* ------------- two queries on one engine, one after the other ---------- *)

\* generate_response has returned or raised and the caller calls it again:
\* the finished call is kept in parked for the record, the engine's
\* attributes stay as the call left them.
NextCall ==
    /\ pc = "done"
    /\ thread = 1
    /\ thread' = 2
    /\ parked' = Frame
    /\ pc' = "idle"
    /\ outcome' = "none"
    /\ result' = ""
    /\ UNCHANGED <<base_params, query, conversation_history, tools, tool_manager,
                   request_body, messages, current_round, current_response,
                   block_index, tool_results, requests, responses, executions,
                   registry_vars>>

NextSequential ==
    \/ NextCall
    \/ GenerateResponseFails(PairQuery(thread), None, [given |-> TRUE, defs |-> ToolDefs], TRUE)
    \/ \E r \in PairResponses(thread) :
           GenerateResponse(PairQuery(thread), None, [given |-> TRUE, defs |-> ToolDefs], TRUE, r)
    \/ ExecuteToolReturns(PairToolOutput(thread))
    \/ ExecuteToolRaises(PairToolError(thread))
    \/ FollowupCallFails
    \/ \E r \in PairResponses(thread) : FollowupCall(r)

SpecSequential == Init /\ [][NextSequential]_vars

(* ============================== claims ================================ *)

\* Number of endpoint calls (invoke_model) made so far in the query.
EndpointCalls == Len(requests)

\* Number of tool_use blocks dispatched so far in the query.
ToolExecutions == Len(executions)

\* Whether request i carries the tools field.
HasTools(i) == "tools" \in DOMAIN requests[i]

\* The query ran to a return of generate_response.
Returned == pc = "done" /\ outcome = "returned"

\* Every response received so far has stop_reason tool_use and exactly one
\* tool_use block.
EveryResponseRequestsOneTool ==
    \A i \in 1..Len(responses) :
        /\ responses[i].stop_reason = "tool_use"
        /\ CountToolUse(responses[i].content) = 1

\* Sum of the tool_use blocks of the first n responses received.
RECURSIVE ToolUsesOfFirst(_)
ToolUsesOfFirst(n) ==
    IF n = 0 THEN 0
    ELSE CountToolUse(responses[n].content) + ToolUsesOfFirst(n - 1)

\* Smaller of two numbers.
Min(a, b) == IF a <= b THEN a ELSE b

\* C1: in one query, whatever the model answers, at most MAX_ROUNDS + 1 = 3
\* endpoint calls are made.
C1_AtMostThreeCalls == EndpointCalls <= 3

\* C1 witness: a query of three calls whose three responses all request tools.
C1_Witness ==
    /\ Returned
    /\ EndpointCalls = 3
    /\ Len(responses) = 3
    /\ \A i \in 1..3 : responses[i].stop_reason = "tool_use"

\* C2: in a query with a tool manager that runs to its return, a model that
\* requests one tool in every response gets exactly 3 endpoint calls and 2
\* tool executions, those of responses 1 and 2; the tool call of the third
\* response is never executed.
C2_AlwaysToolsThreeCallsTwoExecutions ==
    (Returned /\ tool_manager /\ EveryResponseRequestsOneTool) =>
        /\ EndpointCalls = 3
        /\ Len(responses) = 3
        /\ ToolExecutions = 2
        /\ \A k \in 1..2 :
              /\ executions[k].round = k
              /\ executions[k].at_request = k
              /\ executions[k].id =
                    responses[k].content[NextToolUse(responses[k].content, 1)].id

\* C2 witness: such a query has returned, and the third response's tool_use
\* block has an id that no execution used.
C2_Witness ==
    /\ Returned
    /\ tool_manager
    /\ EveryResponseRequestsOneTool
    /\ Len(responses) = 3
    /\ \A k \in 1..ToolExecutions :
          executions[k].id #
              responses[3].content[NextToolUse(responses[3].content, 1)].id

\* C3 as stated: the number of tool executions is at most MAX_ROUNDS,
\* whatever the number of tool_use blocks of each response.
C3_Original == ToolExecutions <= 2

\* C3 amended: tools are executed in at most MAX_ROUNDS rounds, each round
\* executing the tool_use blocks of one response, so that the number of tool
\* executions is at most the number of tool_use blocks of the first
\* MAX_ROUNDS responses.
C3_AtMostMaxRoundsOfExecution ==
    /\ \A k \in 1..ToolExecutions : executions[k].round \in 1..2
    /\ ToolExecutions <= ToolUsesOfFirst(Min(Len(responses), 2))

\* C3 witness: a query that executed more tools than MAX_ROUNDS.
C3_Witness == Returned /\ ToolExecutions = 4

\* C4: when tool definitions are supplied, the initial call and the call
\* after round 1 carry them, and the call after round MAX_ROUNDS carries no
\* tools field.
C4_ToolsOnAllButForcedCall ==
    ToolsTruthy(tools) =>
        \A i \in 1..EndpointCalls :
            IF i <= 2
            THEN HasTools(i) /\ requests[i].tools = tools.defs
            ELSE ~HasTools(i)

\* C4 witness: a query with tool definitions that made the forced third call.
C4_Witness == ToolsTruthy(tools) /\ EndpointCalls = 3 /\ Returned

\* C5: when the first response does not request tool use, exactly one
\* endpoint call is made and no tool is executed.
C5_NoToolUseOneCall ==
    (Len(responses) >= 1 /\ responses[1].stop_reason # "tool_use") =>
        /\ pc = "done"
        /\ EndpointCalls = 1
        /\ ToolExecutions = 0

\* C5 witness: a query answered from a first response without tool use, a
\* tool manager being there and the response carrying a tool_use block.
C5_Witness ==
    /\ Returned
    /\ tool_manager
    /\ Len(responses) = 1
    /\ responses[1].stop_reason # "tool_use"
    /\ CountToolUse(responses[1].content) > 0

\* C6: when the first response requests tools and the second does not,
\* exactly two endpoint calls are made and as many tool executions as the
\* first response has tool_use blocks.
C6_ResolvedInRoundOne ==
    (/\ Len(responses) >= 2
     /\ responses[1].stop_reason = "tool_use"
     /\ responses[2].stop_reason # "tool_use") =>
        /\ pc = "done"
        /\ EndpointCalls = 2
        /\ Len(responses) = 2
        /\ ToolExecutions = CountToolUse(responses[1].content)

\* C6 witness: a query resolved in round 1 whose first response had two
\* tool_use blocks.
C6_Witness ==
    /\ Returned
    /\ Len(responses) = 2
    /\ responses[1].stop_reason = "tool_use"
    /\ responses[2].stop_reason # "tool_use"
    /\ CountToolUse(responses[1].content) = 2

\* a is a prefix of b.
IsPrefix(a, b) == Len(a) <= Len(b) /\ SubSeq(b, 1, Len(a)) = a

\* Position of execution k among the executions of its round.
PositionInRound(k) ==
    Cardinality({j \in 1..k : executions[j].round = executions[k].round})

\* C7: a tool that raises yields the tool result "Error executing tool
\* '<name>': <message>" under the id of its block, the round goes on to the
\* next endpoint call, and no exception of the tool reaches the caller.
C7_ToolFailureBecomesErrorResult ==
    \A k \in 1..ToolExecutions :
        LET e == executions[k]
            error == [type |-> "tool_result", tool_use_id |-> e.id,
                      content |-> "Error executing tool '" \o e.name \o "': " \o e.message]
        IN e.raised =>
            /\ (outcome = "raised") => result = "TransportError"
            /\ (EndpointCalls = e.round) =>
                  /\ pc = "round"
                  /\ PositionInRound(k) <= Len(tool_results)
                  /\ tool_results[PositionInRound(k)] = error
            /\ (EndpointCalls > e.round) =>
                  LET sent == requests[e.round + 1].messages
                  IN /\ sent[Len(sent)].role = "user"
                     /\ PositionInRound(k) <= Len(sent[Len(sent)].content)
                     /\ sent[Len(sent)].content[PositionInRound(k)] = error

\* C7 witness: a query returned although the first tool of round 1 raised;
\* the second tool of the round ran, and the call after the round was sent
\* the error text and then the second tool's result.
C7_Witness ==
    /\ Returned
    /\ EndpointCalls = 2
    /\ ToolExecutions = 2
    /\ executions[1].raised
    /\ ~executions[2].raised
    /\ Len(requests[2].messages) = 3
    /\ Len(requests[2].messages[3].content) = 2
    /\ requests[2].messages[3].content[1].content =
          "Error executing tool 'search_course_content': Tool execution failed"
    /\ requests[2].messages[3].content[2].content = "Result"

\* C8: for k in 1..MAX_ROUNDS, when each of the rounds 1..k used a tool (its
\* response had a tool_use block), the call that follows round k is sent
\* 1 + 2k messages.
C8_HistoryLengthAfterRound ==
    \A k \in 1..2 :
        (/\ EndpointCalls >= k + 1
         /\ \A j \in 1..k : CountToolUse(responses[j].content) >= 1)
        => Len(requests[k + 1].messages) = 1 + 2 * k

\* C8 witness: the call after round 2 was sent five messages.
C8_Witness ==
    /\ EndpointCalls = 3
    /\ Len(requests[2].messages) = 3
    /\ Len(requests[3].messages) = 5

\* C9: the messages of each endpoint call extend those of the call before,
\* by one assistant message and then at most one user message of tool
\* results.
C9_HistoryAppendOnly ==
    \A i \in 2..EndpointCalls :
        LET old == requests[i - 1].messages
            new == requests[i].messages
            n == Len(old)
        IN /\ IsPrefix(old, new)
           /\ Len(new) \in {n + 1, n + 2}
           /\ new[n + 1].role = "assistant"
           /\ Len(new) = n + 2 =>
                 /\ new[n + 2].role = "user"
                 /\ Len(new[n + 2].content) >= 1
                 /\ \A b \in 1..Len(new[n + 2].content) :
                       new[n + 2].content[b].type = "tool_result"

\* C9 witness: three calls, one round adding two messages and the other one.
C9_Witness ==
    /\ EndpointCalls = 3
    /\ Len(requests[3].messages) = 4

\* C10: in every history sent, a tool_result block carries the id of a
\* tool_use block of an earlier message of that history.
C10_ToolResultReferencesEarlierToolUse ==
    \A i \in 1..EndpointCalls :
        LET sent == requests[i].messages
        IN /\ sent[1] = [role |-> "user", content |-> query]
           /\ \A j \in 2..Len(sent) :
                 \A b \in 1..Len(sent[j].content) :
                     sent[j].content[b].type = "tool_result" =>
                         \E j2 \in 2..(j - 1) :
                             \E b2 \in 1..Len(sent[j2].content) :
                                 /\ sent[j2].content[b2].type = "tool_use"
                                 /\ sent[j2].content[b2].id = sent[j].content[b].tool_use_id

\* C10 witness: a history sent with results for two different ids.
C10_Witness ==
    /\ EndpointCalls = 3
    /\ Len(requests[3].messages) = 5
    /\ requests[3].messages[3].content[1].tool_use_id = "tu1"
    /\ requests[3].messages[5].content[1].tool_use_id = "tu2"

\* Ids of the tool_use blocks of a content list, in order of appearance.
RECURSIVE ToolUseIdsOf(_)
ToolUseIdsOf(content) ==
    IF Len(content) = 0 THEN <<>>
    ELSE IF content[1].type = "tool_use"
         THEN <<content[1].id>> \o ToolUseIdsOf(Tail(content))
         ELSE ToolUseIdsOf(Tail(content))

\* C11: when the response that opens round k has n >= 1 tool_use blocks, the
\* call after the round is sent, after the assistant message, one user
\* message of exactly n tool_result blocks, the i-th carrying the id of the
\* i-th tool_use block of the response.
C11_OneResultPerToolUseInOrder ==
    \A k \in 1..2 :
        (EndpointCalls >= k + 1 /\ CountToolUse(responses[k].content) >= 1) =>
            LET sent == requests[k + 1].messages
                last == sent[Len(sent)]
                ids == ToolUseIdsOf(responses[k].content)
            IN /\ Len(sent) = Len(requests[k].messages) + 2
               /\ sent[Len(sent) - 1].role = "assistant"
               /\ last.role = "user"
               /\ Len(last.content) = Len(ids)
               /\ \A i \in 1..Len(ids) :
                     /\ last.content[i].type = "tool_result"
                     /\ last.content[i].tool_use_id = ids[i]

\* C11 witness: round 1 ran the blocks tu2 then tu1 and round 2 a block that
\* follows a text block; the results were sent in that order.
C11_Witness ==
    /\ EndpointCalls = 3
    /\ ToolUseIdsOf(responses[1].content) = <<"tu2", "tu1">>
    /\ Len(responses[2].content) = 2
    /\ responses[2].content[1].type = "text"
    /\ responses[2].content[2].type = "tool_use"
    /\ Len(requests[2].messages[3].content) = 2
    /\ requests[2].messages[3].content[1].tool_use_id = "tu2"
    /\ requests[2].messages[3].content[2].tool_use_id = "tu1"
    /\ Len(requests[3].messages[5].content) = 1

\* C12: when the first response has a stop_reason other than tool_use and
\* holds text blocks, the engine returns the concatenation of all of them,
\* wherever they stand in the content, and runs no tool.
C12_DirectAnswerConcatenatesAllText ==
    (/\ pc = "done"
     /\ Len(responses) = 1
     /\ responses[1].stop_reason # "tool_use"
     /\ Len(TextsOf(responses[1].content)) >= 1) =>
        /\ outcome = "returned"
        /\ result = JoinSpace(TextsOf(responses[1].content))
        /\ ToolExecutions = 0

\* Strings joined by single spaces, built from the left.
RECURSIVE JoinedFromLeft(_)
JoinedFromLeft(ss) ==
    IF Len(ss) = 1 THEN ss[1]
    ELSE JoinedFromLeft(SubSeq(ss, 1, Len(ss) - 1)) \o " " \o ss[Len(ss)]

\* Whether a block is a text block.
IsTextBlock(b) == b.type = "text"

\* The texts of the text blocks of a content list, in order.
TextsInOrder(content) ==
    [i \in 1..Len(SelectSeq(content, IsTextBlock)) |-> SelectSeq(content, IsTextBlock)[i].text]

\* C13: an answer taken from a follow-up response (it does not request
\* tools, or it does on the last round) is that response's texts in order,
\* joined by spaces, its tool_use blocks ignored; without a text block it is
\* the fixed fallback string.
C13_FollowupAnswerIsTextInOrder ==
    (Returned /\ Len(responses) >= 2) =>
        LET last == responses[Len(responses)]
        IN /\ last.stop_reason # "tool_use" \/ Len(responses) = 3
           /\ IF Len(TextsInOrder(last.content)) = 0
              THEN result = "Unable to provide a complete response."
              ELSE result = JoinedFromLeft(TextsInOrder(last.content))

\* C13 witness: the third response still requests tools and holds the texts
\* b then a; the answer is "b a".
C13_Witness ==
    /\ Returned
    /\ Len(responses) = 3
    /\ responses[3].stop_reason = "tool_use"
    /\ TextsInOrder(responses[3].content) = <<"b", "a">>
    /\ result = "b a"

\* C14: whatever the endpoint and the tools do, a query ends with a string
\* handed to the caller, never with an exception; stated here for the
\* queries whose endpoint calls were all answered, where no transport error
\* is involved.
C14_CallerAlwaysReceivesString ==
    (pc = "done" /\ Len(requests) = Len(responses)) => outcome = "returned"

\* An endpoint call of the query failed: a request was made that no
\* response answered.
CallFailed == Len(requests) > Len(responses)

\* C15: when an endpoint call fails, the error leaves generate_response as
\* an exception, and from then on the query makes no endpoint call and
\* executes no tool.
C15_TransportErrorPropagatesNoRetry ==
    /\ [](CallFailed => (pc = "done" /\ outcome = "raised" /\ result = "TransportError"))
    /\ [][CallFailed => (requests' = requests /\ executions' = executions
                          /\ outcome' = outcome)]_vars

\* C15 witness: the call after round 2 failed, tools having run before.
C15_Witness ==
    /\ CallFailed
    /\ EndpointCalls = 3
    /\ ToolExecutions >= 2
    /\ outcome = "raised"

\* Round k of the handler was entered: a tool manager was given and the
\* first k responses all have stop_reason tool_use.
RoundEntered(k) ==
    /\ tool_manager
    /\ Len(responses) >= k
    /\ \A j \in 1..k : responses[j].stop_reason = "tool_use"

C17_HistoryInSystemPromptOnly ==
    \A i \in 1..EndpointCalls :
        LET sent == requests[i].messages
        IN /\ requests[i].system =
                 (IF conversation_history = None
                  THEN "SYSTEM_PROMPT"
                  ELSE "SYSTEM_PROMPT\n\nPrevious conversation:\n" \o conversation_history)
           /\ Len(sent) >= 1
           /\ sent[1] = [role |-> "user", content |-> query]
           /\ i = 1 => Len(sent) = 1
           /\ \A j \in 2..Len(sent) :
                 \/ sent[j].role = "assistant"
                 \/ /\ sent[j].role = "user"
                    /\ \A b \in 1..Len(sent[j].content) :
                          sent[j].content[b].type = "tool_result"

\* C17 witness: a query with a conversation history made three calls.
C17_Witness ==
    /\ conversation_history = "User: hi"
    /\ EndpointCalls = 3
    /\ requests[3].system = "SYSTEM_PROMPT\n\nPrevious conversation:\nUser: hi"
    /\ Len(requests[3].messages) = 5

\* C18: a request carries tool_choice exactly when it carries tools; the
\* tools are then the definitions the caller supplied and tool_choice is
\* automatic selection; when the caller supplied no tools (none, or an empty
\* list) no request of the query carries either field.
C18_ToolChoiceIffTools ==
    \A i \in 1..EndpointCalls :
        /\ ("tool_choice" \in DOMAIN requests[i]) <=> ("tools" \in DOMAIN requests[i])
        /\ "tools" \in DOMAIN requests[i] =>
              /\ tools.given
              /\ requests[i].tools = tools.defs
              /\ requests[i].tool_choice = [type |-> "auto"]
        /\ (~tools.given \/ Len(tools.defs) = 0) =>
              /\ "tools" \notin DOMAIN requests[i]
              /\ "tool_choice" \notin DOMAIN requests[i]

\* C18 witness: of three calls made with supplied tools, the second carries
\* both fields and the third neither.
C18_Witness ==
    /\ EndpointCalls = 3
    /\ tools.given
    /\ Len(tools.defs) = 1
    /\ {"tools", "tool_choice"} \subseteq DOMAIN requests[2]
    /\ {"tools", "tool_choice"} \cap DOMAIN requests[3] = {}

\* C19: when the first response requests a tool (stop_reason tool_use, with
\* a tool_use block) and no tool manager was given, the query returns a
\* string after that one endpoint call, without executing a tool.
C19_ToolUseWithoutManagerReturns ==
    (/\ pc = "done"
     /\ ~tool_manager
     /\ Len(responses) >= 1
     /\ responses[1].stop_reason = "tool_use"
     /\ CountToolUse(responses[1].content) >= 1) =>
        /\ outcome = "returned"
        /\ EndpointCalls = 1
        /\ ToolExecutions = 0

\* C20: a query that entered the tool rounds eventually ends, whatever the
\* model answers, and while the rounds run the round counter is 1 or 2; it
\* never exceeds MAX_ROUNDS.
C20_QueryTerminatesWithinRounds ==
    /\ [](current_round \in 0..2 /\ (pc = "round" => current_round \in 1..2))
    /\ (pc = "round") ~> (pc = "done")

\* C20 witness: a query ended after the model requested tools in all three
\* responses.
C20_Witness ==
    /\ pc = "done"
    /\ current_round = 2
    /\ Len(responses) = 3
    /\ \A i \in 1..3 :
          responses[i].stop_reason = "tool_use" /\ CountToolUse(responses[i].content) >= 1

\* Every message of history msgs was produced for the query of thread t: the
\* seed message holds its query, every later block its texts, tool_use ids
\* and tool results.
MessagesOwnedBy(t, msgs) ==
    \A j \in 1..Len(msgs) :
        IF j = 1
        THEN msgs[j].role = "user" /\ msgs[j].content = PairQuery(t)
        ELSE \A b \in 1..Len(msgs[j].content) :
                LET block == msgs[j].content[b]
                IN \/ block.type = "text" /\ block.text = PairText(t)
                   \/ block.type = "tool_use" /\ block.id = PairToolUseId(t)
                   \/ /\ block.type = "tool_result"
                      /\ block.tool_use_id = PairToolUseId(t)
                      /\ block.content \in
                            {PairToolOutput(t),
                             ErrorString("search_course_content", PairToolError(t))}

\* The call of thread t, with locals f, is isolated and within the bounds.
IsolatedAndBounded(t, f) ==
    /\ \A i \in 1..Len(f.requests) : MessagesOwnedBy(t, f.requests[i].messages)
    /\ MessagesOwnedBy(t, f.messages)
    /\ Len(f.requests) <= MAX_TOOL_ROUNDS + 1
    /\ f.current_round \in 0..MAX_TOOL_ROUNDS
    /\ \A e \in 1..Len(f.executions) :
          f.executions[e].round \in 1..MAX_TOOL_ROUNDS /\ f.executions[e].id = PairToolUseId(t)
    /\ f.pc = "round" =>
          Len(f.messages) \in {2 * f.current_round, 2 * f.current_round + 1}

\* C21: two queries interleaved on one engine each keep their own message
\* history and round counter: every message in a request of a query was
\* produced for that query, and each query stays within MAX_ROUNDS.
C21_ConcurrentQueriesIsolated ==
    /\ IsolatedAndBounded(thread, Frame)
    /\ IsolatedAndBounded(3 - thread, parked)

\* C21 witness: both queries are in the middle of their second round at the
\* same time, each after two endpoint calls and a tool execution.
C21_Witness ==
    /\ pc = "round" /\ parked.pc = "round"
    /\ current_round = 2 /\ parked.current_round = 2
    /\ Len(requests) = 2 /\ Len(parked.requests) = 2
    /\ Len(executions) >= 1 /\ Len(parked.executions) >= 1

\* C22: the dispatch of a name that is not registered raises nothing and
\* returns a string that contains "not found", whatever is registered.
C22_UnknownToolNotFound ==
    [][\A name \in DispatchNames :
          (name \notin Registered /\ DispatchUnknown(name)) =>
             /\ ~reg_result'.raised
             /\ \E pre \in {"Tool '" \o n \o "' " : n \in DispatchNames} :
                   reg_result'.value = pre \o "not found"]_vars

\* C22 witness: with both tools registered, an unregistered name was
\* dispatched and the message came back.
C22_Witness ==
    /\ Len(reg_tools) = 2
    /\ reg_op = "dispatch"
    /\ reg_result = [raised |-> FALSE, value |-> "Tool 'nonexistent_tool' not found"]

\* C23: right after reset_sources, collect_sources returns the empty list,
\* whatever ran before; a second reset_sources in a row changes nothing.
C23_ResetClearsAndIsIdempotent ==
    /\ [](reg_op = "reset" => CollectSources = <<>>)
    /\ [][(reg_op = "reset" /\ reg_op' = "collect") => collected' = <<>>]_vars
    /\ [][(reg_op = "reset" /\ reg_op' = "reset") => UNCHANGED vars]_vars

\* C23 witness: sources were pending and collected, then reset_sources ran.
C23_Witness ==
    /\ reg_op = "reset"
    /\ Len(collected) = 2
    /\ last_sources = <<>>

\* The sources emitted since the last reset, in emission order.
EmittedSources == [i \in 1..Len(emitted) |-> emitted[i].source]

\* C24: collect_sources returns every source emitted since the last
\* reset_sources, in emission order; a query boundary clears nothing.
C24_CollectReturnsAllSinceReset ==
    /\ CollectSources = (IF SEARCH_TOOL \in Registered THEN EmittedSources ELSE <<>>)
    /\ (SEARCH_TOOL \notin Registered) => emitted = <<>>
    /\ reg_op = "collect" => collected = EmittedSources

\* C24 witness: without a reset in between, the collect of the second query
\* returns the source of the first query, then the source of the second.
C24_Witness ==
    /\ reg_op = "collect"
    /\ reg_query = 2
    /\ Len(collected) = 2
    /\ Len(emitted) = 2
    /\ emitted[1].query = 1
    /\ emitted[2].query = 2

\* The empty, error-free search result.
EmptyResults == [passages |-> <<>>, error |-> None]

\* The message C25 expects for each combination of filters.
ExpectedNoResults(course_name, lesson_number) ==
    IF course_name = None /\ lesson_number = NoLesson THEN "No relevant content found."
    ELSE IF course_name = "X" /\ lesson_number = NoLesson
    THEN "No relevant content found in course 'X'."
    ELSE IF course_name = None /\ lesson_number = 5
    THEN "No relevant content found in lesson 5."
    ELSE "No relevant content found in course 'X' in lesson 5."

\* C25: for an empty result without error the search tool returns "No
\* relevant content found", then " in course '<name>'" if a course filter was
\* given, then " in lesson <n>" if a lesson filter was given; with course X
\* alone the text is exactly "No relevant content found in course 'X'."
C25_NoResultsMessageNamesFilters ==
    [][\A args \in SearchArgs :
          DispatchSearch(args, EmptyResults, <<>>) =>
             reg_result' = [raised |-> FALSE,
                            value |-> ExpectedNoResults(args.course_name, args.lesson_number)]]_vars

\* C25 witness: an empty search with both filters returned the message with
\* both suffixes.
C25_Witness ==
    /\ reg_op = "dispatch"
    /\ reg_result.value = "No relevant content found in course 'X' in lesson 5."

\* C26: when the search result carries an error, the search tool returns
\* the error text as it is, not the no-results message, although the result
\* set is empty; no source is emitted.
C26_SearchErrorReturnedVerbatim ==
    [][\A args \in SearchArgs :
          DispatchSearch(args, [passages |-> <<>>, error |-> "Database connection failed"], <<>>) =>
             /\ reg_result' = [raised |-> FALSE, value |-> "Database connection failed"]
             /\ last_sources' = last_sources]_vars

\* C26 witness: a search with a course filter failed and the error came back.
C26_Witness ==
    /\ reg_op = "dispatch"
    /\ reg_result.value = "Database connection failed"

\* The text of the source of passage p, as the tests read it.
ExpectedSourceText(p) ==
    IF p.lesson_number = NoLesson THEN "Test Course" ELSE "Test Course - Lesson 1"

\* C27 as stated: after a search that matched n passages the pending
\* sources of the tool are exactly n.
C27_Original ==
    [][\A args \in SearchArgs, results \in SearchResults :
          \A links \in [1..Len(results.passages) -> Links] :
             (reg_op' = "dispatch" /\ results.error = None
                 /\ DispatchSearch(args, results, links)) =>
                Len(last_sources') = Len(results.passages)]_vars

\* C27 amended: a search that matched n passages appends exactly n sources
\* to the pending sources of the tool, one per passage in order, each with
\* the passage's title and the link the lookup gave, None when it gave none;
\* nothing is raised.
C27_SearchAppendsOneSourcePerPassage ==
    [][\A args \in SearchArgs, results \in SearchResults :
          \A links \in [1..Len(results.passages) -> Links] :
             (reg_op' = "dispatch" /\ results.error = None
                 /\ DispatchSearch(args, results, links)) =>
                /\ ~reg_result'.raised
                /\ Len(last_sources') = Len(last_sources) + Len(results.passages)
                /\ SubSeq(last_sources', 1, Len(last_sources)) = last_sources
                /\ \A i \in 1..Len(results.passages) :
                      last_sources'[Len(last_sources) + i] =
                          [text |-> ExpectedSourceText(results.passages[i]),
                           link |-> links[i]]]_vars

\* C27 witness: two passages matched, the link of the first resolved, the
\* link of the second not.
C27_Witness ==
    /\ reg_op = "dispatch"
    /\ Len(last_sources) = 2
    /\ last_sources[1].link # None
    /\ last_sources[2].link = None
    /\ ~reg_result.raised

\* C28: the assistant message of each tool round holds the content of the
\* response that opened the round, every block of it, text and tool_use, in
\* order and unchanged: in the history while the round runs, and in the
\* request the round sends.
C28_AssistantMessageIsResponseContent ==
    /\ pc = "round" =>
          /\ current_response = responses[current_round]
          /\ messages[Len(messages)] =
                [role |-> "assistant", content |-> responses[current_round].content]
    /\ \A i \in 2..Len(requests) :
          LET m == requests[i].messages
              r == responses[i - 1]
              p == IF CountToolUse(r.content) > 0 THEN Len(m) - 1 ELSE Len(m)
          IN m[p] = [role |-> "assistant", content |-> r.content]

\* C28 witness: both rounds were opened by a response with a text block
\* followed by a tool_use block, and the query returned.
C28_Witness ==
    /\ Returned
    /\ Len(requests) = 3
    /\ \A k \in 1..2 :
          /\ Len(responses[k].content) = 2
          /\ responses[k].content[1].type = "text"
          /\ responses[k].content[2].type = "tool_use"

\* The executions of round k, in the order they were dispatched.
ExecutionsOfRound(k) == SelectSeq(executions, LAMBDA e : e.round = k)

\* The ids of the blocks dispatched in round k, in dispatch order.
DispatchedIds(k) == [i \in 1..Len(ExecutionsOfRound(k)) |-> ExecutionsOfRound(k)[i].id]

\* C29: in a round the tool_use blocks are dispatched one after another in
\* their order in the response; the next endpoint call is made only when
\* every block of the round has its result; no endpoint call is in flight
\* while a tool runs, and no tool runs across an endpoint call.
C29_ToolsInOrderThenNextCall ==
    /\ \A k \in 1..MAX_TOOL_ROUNDS :
          /\ Len(ExecutionsOfRound(k)) > 0 =>
                /\ k <= Len(responses)
                /\ IsPrefix(DispatchedIds(k), ToolUseIdsOf(responses[k].content))
                /\ \A i \in 1..Len(ExecutionsOfRound(k)) :
                      ExecutionsOfRound(k)[i].at_request = k
          /\ Len(requests) >= k + 1 =>
                /\ DispatchedIds(k) = ToolUseIdsOf(responses[k].content)
                /\ Len(requests[k + 1].messages[Len(requests[k + 1].messages)].content)
                      >= Len(DispatchedIds(k))
    /\ \A i, j \in 1..Len(executions) :
          i < j => executions[i].round <= executions[j].round
    /\ pc = "round" =>
          /\ Len(requests) = Len(responses)
          /\ Len(tool_results) = Len(ExecutionsOfRound(current_round))

\* C29 witness: round 1 dispatched tu2 then tu1, as the response listed
\* them, before the second call; round 2 then dispatched its own block.
C29_Witness ==
    /\ Len(requests) = 3
    /\ DispatchedIds(1) = <<"tu2", "tu1">>
    /\ ToolUseIdsOf(responses[1].content) = <<"tu2", "tu1">>
    /\ Len(DispatchedIds(2)) = 1

\* C30: when a response has several tool_use blocks and the execution of one
\* fails, the later blocks are still dispatched, and the tool-result message
\* of the round has one result per block, that of the failed block being
\* the error string, the others the tools' outputs.
C30_FailureDoesNotSkipLaterBlocks ==
    \A k \in 1..MAX_TOOL_ROUNDS :
        (Len(requests) >= k + 1 /\ CountToolUse(responses[k].content) >= 2) =>
            LET sent == requests[k + 1].messages
                results == sent[Len(sent)].content
                ran == ExecutionsOfRound(k)
            IN /\ Len(ran) = CountToolUse(responses[k].content)
               /\ Len(results) = Len(ran)
               /\ \A i \in 1..Len(ran) :
                     /\ results[i].tool_use_id = ran[i].id
                     /\ results[i].content =
                           (IF ran[i].raised
                            THEN "Error executing tool 'search_course_content': Tool execution failed"
                            ELSE "Result")

\* C30 witness: the first of two blocks failed, the second ran and returned,
\* and both results went out with the second call.
C30_Witness ==
    /\ Len(requests) >= 2
    /\ Len(ExecutionsOfRound(1)) = 2
    /\ ExecutionsOfRound(1)[1].raised
    /\ ~ExecutionsOfRound(1)[2].raised
    /\ requests[2].messages[3].content[2].content = "Result"

\* The tool_use blocks of a content list, in order.
ToolUsesOf(content) == SelectSeq(content, LAMBDA b : b.type = "tool_use")

\* The error text C31 expects for a block with malformed input.
ExpectedInputError(block) ==
    IF "input" \in DOMAIN block
    THEN "Error executing tool 'search_course_content': argument after ** must be a mapping, not str"
    ELSE "Error executing tool 'search_course_content': 'input'"

\* C31: a tool_use block whose input is missing or is not a mapping does not
\* abort the query: no exception other than a transport error leaves it, the
\* round goes on to its endpoint call, and that call carries for the block a
\* tool result with an error string.
C31_MalformedInputBecomesErrorResult ==
    /\ outcome = "raised" => result \in {"TransportError", "IndexError", "KeyError"}
    /\ (outcome = "raised" /\ result \in {"IndexError", "KeyError"}) => current_round = 0
    /\ (pc = "round" /\ ToolLoopDone) => ENABLED FollowupCallFails
    /\ \A k \in 1..MAX_TOOL_ROUNDS :
          Len(requests) >= k + 1 =>
             LET uses == ToolUsesOf(responses[k].content)
                 sent == requests[k + 1].messages
             IN \A i \in 1..Len(uses) :
                   ~WellFormedInput(uses[i]) =>
                      sent[Len(sent)].content[i] =
                         [type |-> "tool_result", tool_use_id |-> uses[i].id,
                          content |-> ExpectedInputError(uses[i])]

\* C31 witness: round 1 held a block without input and a block whose input
\* is a string; both got their error result and the query returned.
C31_Witness ==
    /\ Returned
    /\ Len(requests) >= 2
    /\ Len(ToolUsesOf(responses[1].content)) = 2
    /\ "input" \notin DOMAIN responses[1].content[1]
    /\ "input" \in DOMAIN responses[1].content[2]
    /\ responses[1].content[2].input = "not a mapping"

\* The roles of msgs are user, assistant, user, ..., ending on user.
RolesAlternate(msgs) ==
    /\ Len(msgs) >= 1
    /\ \A j \in 1..Len(msgs) :
          msgs[j].role = (IF j % 2 = 1 THEN "user" ELSE "assistant")
    /\ msgs[Len(msgs)].role = "user"

C33_EachQueryStartsFresh ==
    /\ base_params = BaseParams
    /\ (pc # "idle" /\ Len(requests) >= 1) =>
          requests[1].messages = <<[role |-> "user", content |-> PairQuery(thread)]>>
    /\ (pc = "round" /\ current_round = 1) =>
          /\ Len(messages) = 2
          /\ messages[1] = [role |-> "user", content |-> PairQuery(thread)]
    /\ thread = 2 =>
          parked.requests[1].messages = <<[role |-> "user", content |-> "q1"]>>

\* C33 witness: the first query ran two tool rounds and left a history of
\* five messages; the second query is in its first round.
C33_Witness ==
    /\ thread = 2
    /\ Len(parked.requests) = 3
    /\ Len(parked.messages) = 5
    /\ pc = "round"
    /\ current_round = 1
    /\ requests[1].messages[1].content = "q2"

\* The positions of the assistant messages of msgs that hold a tool_use
\* block (the seed message, at position 1, is a user message).
AssistantWithToolUse(msgs) ==
    {j \in 2..Len(msgs) :
        msgs[j].role = "assistant" /\ Len(ToolUsesOf(msgs[j].content)) > 0}

\* Message j of msgs is followed by a user message of tool results.
FollowedByResults(msgs, j) ==
    /\ j + 1 <= Len(msgs)
    /\ msgs[j + 1].role = "user"
    /\ \A x \in 1..Len(msgs[j + 1].content) : msgs[j + 1].content[x].type = "tool_result"

\* C34 as stated: in every follow-up request each tool_use block of each
\* assistant message has exactly one tool_result block with its id in the
\* user message that follows the assistant message.
C34_Original ==
    \A i \in 2..Len(requests) :
        LET m == requests[i].messages
        IN \A j \in AssistantWithToolUse(m) :
              /\ FollowedByResults(m, j)
              /\ \A p \in 1..Len(ToolUsesOf(m[j].content)) :
                    Cardinality({x \in 1..Len(m[j + 1].content) :
                        m[j + 1].content[x].tool_use_id = ToolUsesOf(m[j].content)[p].id}) = 1

\* C34 amended: in every follow-up request each assistant message with
\* tool_use blocks is followed by a user message with as many tool_result
\* blocks, the p-th result carrying the id of the p-th tool_use block; no
\* tool_use block is sent without its result.
C34_EveryToolUseSentWithItsResult ==
    \A i \in 2..Len(requests) :
        LET m == requests[i].messages
        IN \A j \in AssistantWithToolUse(m) :
              /\ FollowedByResults(m, j)
              /\ Len(m[j + 1].content) = Len(ToolUsesOf(m[j].content))
              /\ \A p \in 1..Len(ToolUsesOf(m[j].content)) :
                    m[j + 1].content[p].tool_use_id = ToolUsesOf(m[j].content)[p].id

\* C34 witness: the third request holds two assistant messages, the first
\* with the blocks tu1 and tu2, the second after a text block with tu2, each
\* followed by its results.
C34_Witness ==
    /\ Len(requests) = 3
    /\ AssistantWithToolUse(requests[3].messages) = {2, 4}
    /\ ToolUseIdsOf(requests[3].messages[2].content) = <<"tu1", "tu2">>
    /\ ToolUseIdsOf(requests[3].messages[4].content) = <<"tu2">>
    /\ Len(requests[3].messages[4].content) = 2

\* For each text, the strings a join of up to 3 * MaxBlocks texts can give
\* when that text is among them.
StringsWith ==
    [t \in TextsWide |->
        {JoinedFromLeft(ss) :
            ss \in {s \in UNION {[1..n -> TextsWide] : n \in 1..(3 * MaxBlocks)} :
                       \E i \in 1..Len(s) : s[i] = t}}]

\* The texts of the text blocks of response k.
TextSetOf(k) ==
    {responses[k].content[i].text :
        i \in {x \in 1..Len(responses[k].content) : responses[k].content[x].type = "text"}}

\* C35: the returned answer is made of the last response received only: a
\* text that the last response does not hold is not in the answer, also when
\* an earlier response of the query held it.
C35_AnswerFromLastResponseOnly ==
    Returned =>
        /\ \A t \in TextsWide :
              t \notin TextSetOf(Len(responses)) => result \notin StringsWith[t]
        /\ TextSetOf(Len(responses)) = {} => result = "Unable to provide a complete response."

\* C35 witness: the two tool-requesting responses said "a", the last one
\* said "b", and the answer is "b".
C35_Witness ==
    /\ Returned
    /\ Len(responses) = 3
    /\ TextSetOf(1) = {"a"}
    /\ TextSetOf(2) = {"a"}
    /\ TextSetOf(3) = {"b"}
    /\ result = "b"

\* C36: whether the tools run depends on the first response's stop_reason
\* and on the tool manager alone. With a tool manager and no tool
\* definitions a first response with stop_reason tool_use opens round 1, its
\* tool_use blocks are all dispatched, and no request of the query has a
\* tools field.
C36_ToolExecutionNotGatedByToolDefinitions ==
    /\ Len(responses) >= 1 =>
          (current_round >= 1 <=> (responses[1].stop_reason = "tool_use" /\ tool_manager))
    /\ (Len(responses) >= 1 /\ tool_manager /\ ~ToolsTruthy(tools)
           /\ responses[1].stop_reason = "tool_use") =>
          /\ \A i \in 1..Len(requests) :
                /\ "tools" \notin DOMAIN requests[i]
                /\ "tool_choice" \notin DOMAIN requests[i]
          /\ Len(requests) >= 2 =>
                DispatchedIds(1) = ToolUseIdsOf(responses[1].content)

\* C36 witness: no tool definitions were passed, only a tool manager; two
\* rounds ran three tool_use blocks and the query returned.
C36_Witness ==
    /\ Returned
    /\ tool_manager
    /\ ~tools.given
    /\ Len(requests) = 3
    /\ Len(executions) = 3

\* C37: the return after the while loop is never taken. A handler that
\* returns does so inside the loop, in round 1 or 2, right after the
\* response of that round; the fallback string of line 185 is never the
\* answer and the loop test never sees a round beyond MAX_TOOL_ROUNDS.
C37_FallbackAfterLoopUnreachable ==
    /\ result # "Unable to generate response after maximum tool rounds."
    /\ current_round <= MAX_TOOL_ROUNDS
    /\ (Returned /\ current_round >= 1) =>
          /\ current_round \in 1..MAX_TOOL_ROUNDS
          /\ Len(responses) = current_round + 1
          /\ \/ responses[Len(responses)].stop_reason # "tool_use"
             \/ current_round = MAX_TOOL_ROUNDS

\* C37 witness: the handler returned in round 2 on a third response that
\* still requested a tool.
C37_Witness ==
    /\ Returned
    /\ current_round = 2
    /\ Len(responses) = 3
    /\ responses[3].stop_reason = "tool_use"
    /\ CountToolUse(responses[3].content) >= 1

====
